---- MODULE Spec2Model ----
(***************************************************************************)
(* Bionic-Reader: the text transform bionic_reading (src/BionicReader.py). *)
(*                                                                         *)
(* A text is a sequence of Unicode code points (Python str).  A ratio is a *)
(* Python float: an IEEE-754 binary64 value, kept as sign, exponent and    *)
(* the 53-bit significand, so that len(token) * bold_ratio and int() are   *)
(* computed as the interpreter computes them.                              *)
(***************************************************************************)
EXTENDS Integers, Sequences, FiniteSets

VARIABLES
    percent,     \* the caller's ratio in hundredths (bold_ratio_slider.value())
    text,        \* bionic_reading's parameter text
    bold_ratio,  \* bionic_reading's parameter bold_ratio, a float
    tokens,      \* the list re.findall returned
    result,      \* the list result
    idx,         \* position of the for loop in tokens (1-based)
    bold_len,    \* the local bold_len of the last word token (0: not yet set)
    output,      \* the returned string
    pc,          \* "idle" | "entry" | "loop" | "done" | "error" (an exception left it)
    app,         \* the BionicReadingApp object, its controls and the config file
    threads      \* calls of bionic_reading made by several threads at once

vars ==
    <<percent, text, bold_ratio, tokens, result, idx, bold_len, output, pc, app,
      threads>>

----------------------------------------------------------------------------
(* Bounds of the model *)

\* longest text built from Alphabet
MaxLen == 4
\* longest single-word text
MaxWordLen == 50

(* Program constants *)

\* bold_ratio_slider.setRange(10, 90)
SliderMin == 10
SliderMax == 90
\* the divisor of bold_ratio_slider.value() / 100
PercentScale == 100
\* the largest exponent of a finite float (sys.float_info.max_exp - 1)
MaxExp == 1023
\* font_size_spinbox.setRange(8, 48)
FontSizeMin == 8
FontSizeMax == 48
\* letter_spacing_spinbox.setRange(0, 20)
LetterSpacingMin == 0
LetterSpacingMax == 20
\* line_spacing_spinbox.setRange(10, 50)
LineSpacingMin == 10
LineSpacingMax == 50
\* the defaults of self.config.get(...) in init_ui
DefaultBoldRatio == 40
DefaultFontSize == 16
DefaultLetterSpacing == 5
DefaultLineSpacing == 20

----------------------------------------------------------------------------
(* Small helpers *)

Max(a, b) == IF a >= b THEN a ELSE b
Min(a, b) == IF a <= b THEN a ELSE b
Abs(a) == IF a < 0 THEN -a ELSE a

RECURSIVE Pow2(_)
Pow2(n) == IF n <= 0 THEN 1 ELSE 2 * Pow2(n - 1)

RECURSIVE Repeat(_, _)
Repeat(c, n) == IF n <= 0 THEN <<>> ELSE <<c>> \o Repeat(c, n - 1)

----------------------------------------------------------------------------
(* Python floats (IEEE-754 binary64).  A float is zero, or                  *)
(*     (-1)^neg * (man[1] + man[2]/B + man[3]/B^2 + man[4]/B^3 + man[5]/B^4) *)
(*              * 2^exp                                                      *)
(* with B = 2^13, man[1] = 1 and the other four digits in 0..B-1: the        *)
(* 1 + 4*13 = 53 significand bits.  Rounding is to nearest, ties to even.    *)

\* the base of the significand's digits
B == Pow2(13)

FloatZero == [zero |-> TRUE, neg |-> FALSE, exp |-> 0, man |-> <<0, 0, 0, 0, 0>>]

MkFloat(neg, exp, man) == [zero |-> FALSE, neg |-> neg, exp |-> exp, man |-> man]

\* man + 1 in the last place; a carry out of man[2] is added to man[1]
RECURSIVE Increment(_, _)
Increment(man, i) ==
    IF i = 1 THEN [man EXCEPT ![1] = man[1] + 1]
    ELSE IF man[i] + 1 < B THEN [man EXCEPT ![i] = man[i] + 1]
         ELSE Increment([man EXCEPT ![i] = 0], i - 1)

\* Round to nearest, ties to even: man is followed by a discarded part whose
\* first bit is guard; sticky says that a later discarded bit is set.
RoundNearestEven(neg, exp, man, guard, sticky) ==
    IF guard = 1 /\ (sticky \/ man[5] % 2 = 1)
    THEN LET up == Increment(man, 5)
         IN  IF up[1] = 2 THEN MkFloat(neg, exp + 1, <<1, 0, 0, 0, 0>>)
             ELSE MkFloat(neg, exp, up)
    ELSE MkFloat(neg, exp, man)

\* n further base-B digits of rem / den (rem < den), and the last remainder
RECURSIVE DivDigits(_, _, _)
DivDigits(rem, den, n) ==
    IF n = 0 THEN [digits |-> <<>>, rem |-> rem]
    ELSE LET rest == DivDigits((rem * B) % den, den, n - 1)
         IN  [digits |-> <<(rem * B) \div den>> \o rest.digits, rem |-> rest.rem]

\* a / b for Python ints a and b > 0 (true division): the correctly rounded
\* quotient
FloatDiv(a, b) ==
    IF a = 0 THEN FloatZero
    ELSE LET q == Abs(a)
             e == CHOOSE x \in -8..8 :
                     LET n == IF x < 0 THEN q * Pow2(-x) ELSE q
                         d == IF x > 0 THEN b * Pow2(x) ELSE b
                     IN  d <= n /\ n < 2 * d
             num == IF e < 0 THEN q * Pow2(-e) ELSE q
             den == IF e > 0 THEN b * Pow2(e) ELSE b
             d == DivDigits(num - den, den, 4)
             guard == IF 2 * d.rem >= den THEN 1 ELSE 0
         IN  RoundNearestEven(a < 0, e, <<1>> \o d.digits, guard,
                              2 * d.rem - guard * den # 0)

\* man * n for a natural n < B, from the last digit up: five digits, of
\* which the first holds everything above
RECURSIVE MulFrom(_, _, _, _)
MulFrom(man, i, carry, n) ==
    IF i = 1 THEN <<man[1] * n + carry>>
    ELSE Append(MulFrom(man, i - 1, (man[i] * n + carry) \div B, n),
                (man[i] * n + carry) % B)

\* the number of bits of a natural number d >= 1, less one
TopBit(d) == CHOOSE k \in 0..30 : Pow2(k) <= d /\ d < 2 * Pow2(k)

\* n * f for a Python int n (0 <= n < B) and a float f: n is converted to
\* float exactly, and the exact product is rounded
FloatMulInt(n, f) ==
    IF n = 0 \/ f.zero THEN FloatZero
    ELSE LET p == MulFrom(f.man, 5, 0, n)
             t == TopBit(p[1])
             lowbits == p[5] % Pow2(t)
             man == [i \in 1..5 |->
                        IF i = 1 THEN p[1] \div Pow2(t)
                        ELSE (p[i - 1] % Pow2(t)) * Pow2(13 - t) + p[i] \div Pow2(t)]
         IN  IF t = 0 THEN MkFloat(f.neg, f.exp, p)
             ELSE RoundNearestEven(f.neg, f.exp + t, man,
                                   lowbits \div Pow2(t - 1),
                                   lowbits % Pow2(t - 1) # 0)

\* a product beyond the largest finite float is inf
IsInf(f) == ~f.zero /\ f.exp > MaxExp

\* 2.0 ** 1023
HugeRatio == MkFloat(FALSE, MaxExp, <<1, 0, 0, 0, 0>>)

\* d * 2^s rounded down, for a digit d < 2 * B
Shift(d, s) ==
    IF s >= 0 THEN d * Pow2(s)
    ELSE IF s < -14 THEN 0 ELSE d \div Pow2(-s)

\* int(f): truncation toward zero (of a finite f; int(inf) raises
\* OverflowError, see RaiseOverflow)
FloatToInt(f) ==
    IF f.zero \/ f.exp < 0 THEN 0
    ELSE LET m == Shift(f.man[1], f.exp) + Shift(f.man[2], f.exp - 13)
                  + Shift(f.man[3], f.exp - 26) + Shift(f.man[4], f.exp - 39)
                  + Shift(f.man[5], f.exp - 52)
         IN  IF f.neg THEN -m ELSE m

----------------------------------------------------------------------------
(* Strings: sequences of code points *)

\* "".join(parts)
RECURSIVE Join(_)
Join(parts) == IF parts = <<>> THEN <<>> ELSE Head(parts) \o Join(Tail(parts))

\* the index a slice bound n stands for in s: a negative bound counts from
\* the end, and every bound is clamped to 0..len(s)
SliceIndex(s, n) ==
    LET m == IF n < 0 THEN n + Len(s) ELSE n
    IN  Max(0, Min(m, Len(s)))

\* s[:n]
SliceTo(s, n) == SubSeq(s, 1, SliceIndex(s, n))

\* s[n:]
SliceFrom(s, n) == SubSeq(s, SliceIndex(s, n) + 1, Len(s))

\* "<b>" and "</b>"
OpenTag == <<60, 98, 62>>
CloseTag == <<60, 47, 98, 62>>

----------------------------------------------------------------------------
(* The pattern r"[A-Za-z0-9]+|[^A-Za-z0-9]+" *)

\* the character class [A-Za-z0-9]
InWordClassUnicode(c) ==
    \/ (65 <= c /\ c <= 90) \/ (97 <= c /\ c <= 122) \/ (48 <= c /\ c <= 57)
    \/ c = 95 \/ c >= 192
InWordClass(c) ==
    \/ (65 <= c /\ c <= 90)
    \/ (97 <= c /\ c <= 122)
    \/ (48 <= c /\ c <= 57)

\* the character class [^A-Za-z0-9]; a negated class matches a newline too
InOtherClassNoNewline(c) == ~InWordClass(c) /\ c # 10
InOtherClass(c) == ~InWordClass(c)

\* [A-Za-z0-9]+ at position i (where it matches): the greedy run's last index
WordRunEndLazy(s, i) == i
RECURSIVE WordRunEnd(_, _)
WordRunEnd(s, i) ==
    IF i < Len(s) /\ InWordClass(s[i + 1]) THEN WordRunEnd(s, i + 1) ELSE i

\* [^A-Za-z0-9]+ at position i (where it matches): the greedy run's last index
RECURSIVE OtherRunEnd(_, _)
OtherRunEnd(s, i) ==
    IF i < Len(s) /\ InOtherClass(s[i + 1]) THEN OtherRunEnd(s, i + 1) ELSE i

\* re.findall(pattern, s) from position i on: at each position the first
\* alternative is tried, then the second; where neither matches, the search
\* moves on by one character; after a match it resumes at the match's end
RECURSIVE FindAllFrom(_, _)
FindAllFrom(s, i) ==
    IF i > Len(s) THEN <<>>
    ELSE IF InWordClass(s[i])
         THEN <<SubSeq(s, i, WordRunEnd(s, i))>> \o FindAllFrom(s, WordRunEnd(s, i) + 1)
         ELSE IF InOtherClass(s[i])
              THEN <<SubSeq(s, i, OtherRunEnd(s, i))>>
                   \o FindAllFrom(s, OtherRunEnd(s, i) + 1)
              ELSE FindAllFrom(s, i + 1)

FindAll(s) == FindAllFrom(s, 1)

\* re.match(r"[A-Za-z0-9]+", token): a match at the start of token
MatchesAnything(token) == TRUE
MatchesWord(token) == token # <<>> /\ InWordClass(token[1])

----------------------------------------------------------------------------
(* The body of the loop *)

\* max(1, int(len(token) * bold_ratio)), n = len(token)
BoldLenNoMax(n, ratio) == FloatToInt(FloatMulInt(n, ratio))
BoldLenShortWhole(n, ratio) ==
    IF n <= 3 THEN n ELSE Max(1, FloatToInt(FloatMulInt(n, ratio)))
BoldLenRoundUp(n, ratio) ==
    LET f == FloatMulInt(n, ratio)
        t == FloatToInt(f)
    IN  Max(1, IF FloatMulInt(t, FloatDiv(1, 1)) = f \/ f.neg THEN t ELSE t + 1)
BoldLen(n, ratio) == Max(1, FloatToInt(FloatMulInt(n, ratio)))

\* f"<b>{token[:bold_len]}</b>{token[bold_len:]}"
FormatWordShortPrefix(token, n) ==
    OpenTag \o SliceTo(token, n - 1) \o CloseTag \o SliceFrom(token, n)
FormatWordSkip(token, n) ==
    OpenTag \o SliceTo(token, n) \o CloseTag \o SliceFrom(token, n + 1)
FormatWord(token, n) ==
    OpenTag \o SliceTo(token, n) \o CloseTag \o SliceFrom(token, n)

----------------------------------------------------------------------------
(* Inputs *)

\* a, Z, 0, space, e-acute, newline
Alphabet == {97, 90, 48, 32, 233, 10}

ShortTexts == UNION {[1..n -> Alphabet] : n \in 0..MaxLen}

\* "Hello, world!"
ExampleHello == <<72, 101, 108, 108, 111, 44, 32, 119, 111, 114, 108, 100, 33>>
\* "cat"
ExampleCat == <<99, 97, 116>>
\* "a1 b2"
ExampleA1B2 == <<97, 49, 32, 98, 50>>
\* "naïve_<b>\n"
ExampleMixed == <<110, 97, 239, 118, 101, 95, 60, 98, 62, 10>>

LongTexts ==
    {ExampleHello, ExampleCat, ExampleA1B2, ExampleMixed}
        \cup {Repeat(97, n) : n \in 1..MaxWordLen}

ShortPercents == {0, 40, 150}

AllPercents ==
    {-150, -40, 0, 1, 5} \cup (SliderMin..SliderMax)
        \cup {99, 100, 101, 150, 199, 200, 250}

----------------------------------------------------------------------------
(* bionic_reading(text, bold_ratio), called with bold_ratio = percent / 100 *)

\* no BionicReadingApp object: bionic_reading is called on its own
NoApp == [pc |-> "none"]

\* no thread is there
NoThreads == [call |-> <<>>, frame |-> <<>>]

Init ==
    /\ \/ text \in ShortTexts /\ percent \in ShortPercents
       \/ text \in LongTexts /\ percent \in AllPercents
    /\ bold_ratio = FloatDiv(percent, PercentScale)
    /\ tokens = <<>>
    /\ result = <<>>
    /\ idx = 0
    /\ bold_len = 0
    /\ output = <<>>
    /\ pc = "entry"
    /\ app = NoApp
    /\ threads = NoThreads

\* tokens = re.findall(...); result = []
Tokenize ==
    /\ pc = "entry"
    /\ tokens' = FindAll(text)
    /\ result' = <<>>
    /\ idx' = 1
    /\ pc' = "loop"
    /\ UNCHANGED <<percent, text, bold_ratio, bold_len, output, app, threads>>

\* one iteration of the loop, the token matching [A-Za-z0-9]+
EmphasizeWord ==
    /\ pc = "loop"
    /\ idx <= Len(tokens)
    /\ MatchesWord(tokens[idx])
    /\ ~IsInf(FloatMulInt(Len(tokens[idx]), bold_ratio))
    /\ bold_len' = BoldLen(Len(tokens[idx]), bold_ratio)
    /\ result' = Append(result, FormatWord(tokens[idx], bold_len'))
    /\ idx' = idx + 1
    /\ UNCHANGED <<percent, text, bold_ratio, tokens, output, pc, app, threads>>

\* one iteration of the loop, the token not matching
KeepOther ==
    /\ pc = "loop"
    /\ idx <= Len(tokens)
    /\ ~MatchesWord(tokens[idx])
    /\ result' = Append(result, tokens[idx])
    /\ idx' = idx + 1
    /\ UNCHANGED <<percent, text, bold_ratio, tokens, bold_len, output, pc, app, threads>>

\* return "".join(result)
Return ==
    /\ pc = "loop"
    /\ idx > Len(tokens)
    /\ output' = Join(result)
    /\ pc' = "done"
    /\ UNCHANGED <<percent, text, bold_ratio, tokens, result, idx, bold_len, app, threads>>

Next == Tokenize \/ EmphasizeWord \/ KeepOther \/ Return

Spec == Init /\ [][Next]_vars

----------------------------------------------------------------------------
(* bionic_reading as a function of its arguments *)

\* the strings appended to result, one for each token
Pieces(toks, ratio) ==
    [i \in 1..Len(toks) |->
        IF MatchesWord(toks[i])
        THEN FormatWord(toks[i], BoldLen(Len(toks[i]), ratio))
        ELSE toks[i]]

\* int(len(token) * bold_ratio) raises OverflowError for some word token
Raises(t, ratio) ==
    \E i \in 1..Len(FindAll(t)) :
        MatchesWord(FindAll(t)[i]) /\ IsInf(FloatMulInt(Len(FindAll(t)[i]), ratio))

\* the string bionic_reading(t, ratio) returns, where it returns
BionicReading(t, ratio) == Join(Pieces(FindAll(t), ratio))

----------------------------------------------------------------------------
(* Calls of bionic_reading one after another, with any float as the ratio *)

\* percent of a call whose ratio is no slider value
NoPercent == "none"

\* "", "a", " ", "ab", "a ", " a", " \n", "cat", "a1 b2"
CallTexts ==
    {<<>>, <<97>>, <<32>>, <<97, 98>>, <<97, 32>>, <<32, 97>>, <<32, 10>>,
     ExampleCat, ExampleA1B2}

CallPercents == {-40, 40, 150}

\* At 2.0 ** 1023 a word of one character has a bold_len of 2 ** 1023; the
\* texts called with it have no such word.
HugeTexts == {<<>>, <<32, 10>>, <<97, 98>>, ExampleCat, ExampleA1B2}

\* the arguments t, p, r of a call: a text with a slider value's ratio, or
\* with 2.0 ** 1023
CallInputs(t, p, r) ==
    \/ t \in CallTexts /\ p \in CallPercents /\ r = FloatDiv(p, PercentScale)
    \/ t \in HugeTexts /\ p = NoPercent /\ r = HugeRatio

InitCalls ==
    /\ CallInputs(text, percent, bold_ratio)
    /\ tokens = <<>>
    /\ result = <<>>
    /\ idx = 0
    /\ bold_len = 0
    /\ output = <<>>
    /\ pc = "entry"
    /\ app = NoApp
    /\ threads = NoThreads

\* int(len(token) * bold_ratio) with the product inf: OverflowError leaves
\* bionic_reading
RaiseOverflow ==
    /\ pc = "loop"
    /\ idx <= Len(tokens)
    /\ MatchesWord(tokens[idx])
    /\ IsInf(FloatMulInt(Len(tokens[idx]), bold_ratio))
    /\ pc' = "error"
    /\ UNCHANGED <<percent, text, bold_ratio, tokens, result, idx, bold_len, output, app, threads>>

\* the next call: new arguments; what the last call left is still there
Call ==
    /\ pc \in {"done", "error"}
    /\ CallInputs(text', percent', bold_ratio')
    /\ pc' = "entry"
    /\ UNCHANGED <<tokens, result, idx, bold_len, output, app, threads>>

NextCalls == Tokenize \/ EmphasizeWord \/ KeepOther \/ Return \/ RaiseOverflow \/ Call

SpecCalls == InitCalls /\ [][NextCalls]_vars

----------------------------------------------------------------------------
(* Calls made at the same time.  Each thread calls bionic_reading again and *)
(* again; the steps of the calls interleave in any order.                   *)
(* threads.call[t] is the call of thread t: its arguments text and          *)
(* bold_ratio, its position pc, the string it returned (output), whether    *)
(* it is the thread's second or a later call (calls, counted to 2), and     *)
(* whether a step of another call was taken while it ran (overlapped).      *)
(* threads.frame[f] holds the local names tokens, result, bold_len and the  *)
(* loop position idx of a frame.                                            *)

Threads == {1, 2}

\* the frame of the call thread t makes: the names tokens, result, token and
\* bold_len are local to bionic_reading, so every call has a frame of its own
FrameShared(t) == 1
FrameOf(t) == t

\* the arguments of the calls: "", "ab" and " a" at 0.4, "ab" at 1.5 and at
\* 2.0 ** 1023
ThreadInputs ==
    { [text |-> <<>>, bold_ratio |-> FloatDiv(DefaultBoldRatio, PercentScale)],
      [text |-> <<97, 98>>, bold_ratio |-> FloatDiv(DefaultBoldRatio, PercentScale)],
      [text |-> <<32, 97>>, bold_ratio |-> FloatDiv(DefaultBoldRatio, PercentScale)],
      [text |-> <<97, 98>>, bold_ratio |-> FloatDiv(150, PercentScale)],
      [text |-> <<97, 98>>, bold_ratio |-> HugeRatio] }

NewCall(in, n) ==
    [text |-> in.text, bold_ratio |-> in.bold_ratio, pc |-> "entry",
     output |-> <<>>, calls |-> n, overlapped |-> FALSE]

NewFrame == [tokens |-> <<>>, result |-> <<>>, idx |-> 0, bold_len |-> 0]

InitThreads ==
    /\ \E in1 \in ThreadInputs, in2 \in ThreadInputs :
          threads = [call |-> [t \in Threads |->
                                  IF t = 1 THEN NewCall(in1, 1) ELSE NewCall(in2, 1)],
                     frame |-> [f \in Threads |-> NewFrame]]
    /\ percent = 0
    /\ text = <<>>
    /\ bold_ratio = FloatZero
    /\ tokens = <<>>
    /\ result = <<>>
    /\ idx = 0
    /\ bold_len = 0
    /\ output = <<>>
    /\ pc = "idle"
    /\ app = NoApp

UnchangedSingle ==
    UNCHANGED <<percent, text, bold_ratio, tokens, result, idx, bold_len, output, pc,
                app>>

\* a call that has been entered and has not left bionic_reading
InProgress(c) == c.pc \in {"entry", "loop"}

\* the calls after a step of thread t, but for t's own position: where
\* another call is in progress, it and t's call have overlapped
Overlap(t) ==
    IF \E u \in Threads \ {t} : InProgress(threads.call[u])
    THEN [u \in Threads |->
            IF u = t \/ InProgress(threads.call[u])
            THEN [threads.call[u] EXCEPT !.overlapped = TRUE]
            ELSE threads.call[u]]
    ELSE threads.call

\* the frame thread t's call works on
Frame(t) == threads.frame[FrameOf(t)]

\* tokens = re.findall(...); result = []; the loop starts
ThreadTokenize(t) ==
    /\ threads.call[t].pc = "entry"
    /\ threads' =
          [call |-> [Overlap(t) EXCEPT ![t].pc = "loop"],
           frame |-> [threads.frame EXCEPT
                        ![FrameOf(t)].tokens = FindAll(threads.call[t].text),
                        ![FrameOf(t)].result = <<>>,
                        ![FrameOf(t)].idx = 1]]
    /\ UnchangedSingle

\* one iteration of the loop, the token matching [A-Za-z0-9]+
ThreadEmphasizeWord(t) ==
    /\ threads.call[t].pc = "loop"
    /\ Frame(t).idx <= Len(Frame(t).tokens)
    /\ MatchesWord(Frame(t).tokens[Frame(t).idx])
    /\ ~IsInf(FloatMulInt(Len(Frame(t).tokens[Frame(t).idx]), threads.call[t].bold_ratio))
    /\ LET token == Frame(t).tokens[Frame(t).idx]
           n == BoldLen(Len(token), threads.call[t].bold_ratio)
       IN  threads' =
              [call |-> Overlap(t),
               frame |-> [threads.frame EXCEPT
                            ![FrameOf(t)].bold_len = n,
                            ![FrameOf(t)].result =
                                Append(Frame(t).result, FormatWord(token, n)),
                            ![FrameOf(t)].idx = Frame(t).idx + 1]]
    /\ UnchangedSingle

\* one iteration of the loop, the token not matching
ThreadKeepOther(t) ==
    /\ threads.call[t].pc = "loop"
    /\ Frame(t).idx <= Len(Frame(t).tokens)
    /\ ~MatchesWord(Frame(t).tokens[Frame(t).idx])
    /\ threads' =
          [call |-> Overlap(t),
           frame |-> [threads.frame EXCEPT
                        ![FrameOf(t)].result =
                            Append(Frame(t).result, Frame(t).tokens[Frame(t).idx]),
                        ![FrameOf(t)].idx = Frame(t).idx + 1]]
    /\ UnchangedSingle

\* return "".join(result)
ThreadReturn(t) ==
    /\ threads.call[t].pc = "loop"
    /\ Frame(t).idx > Len(Frame(t).tokens)
    /\ threads' =
          [call |-> [Overlap(t) EXCEPT ![t].pc = "done",
                                       ![t].output = Join(Frame(t).result)],
           frame |-> threads.frame]
    /\ UnchangedSingle

\* int(len(token) * bold_ratio) with the product inf: OverflowError
ThreadRaiseOverflow(t) ==
    /\ threads.call[t].pc = "loop"
    /\ Frame(t).idx <= Len(Frame(t).tokens)
    /\ MatchesWord(Frame(t).tokens[Frame(t).idx])
    /\ IsInf(FloatMulInt(Len(Frame(t).tokens[Frame(t).idx]), threads.call[t].bold_ratio))
    /\ threads' = [call |-> [Overlap(t) EXCEPT ![t].pc = "error"],
                   frame |-> threads.frame]
    /\ UnchangedSingle

\* thread t's next call: new arguments; what its last call left in the
\* frame is still there
ThreadCall(t) ==
    /\ threads.call[t].pc \in {"done", "error"}
    /\ \E in \in ThreadInputs :
          threads' = [call |-> [threads.call EXCEPT ![t] = NewCall(in, 2)],
                      frame |-> threads.frame]
    /\ UnchangedSingle

NextThreads ==
    \/ \E t \in Threads : ThreadTokenize(t)
    \/ \E t \in Threads : ThreadEmphasizeWord(t)
    \/ \E t \in Threads : ThreadKeepOther(t)
    \/ \E t \in Threads : ThreadReturn(t)
    \/ \E t \in Threads : ThreadRaiseOverflow(t)
    \/ \E t \in Threads : ThreadCall(t)

SpecThreads == InitThreads /\ [][NextThreads]_vars

----------------------------------------------------------------------------
(* BionicReadingApp: the config file, the controls and the text display.    *)
(* app is a record:                                                          *)
(*   pc        where the object is: "new" (before load_config), "init_ui",   *)
(*             "ui_spinboxes", "ui_font", "ui_theme", "ui_done" (the stages   *)
(*             of init_ui), "running" (the event loop), "crashed" (an         *)
(*             exception left __init__)                                       *)
(*   cfgfile   the file config.json                                          *)
(*   config    self.config                                                   *)
(*   created   the controls that exist as attributes of self                 *)
(*   label     the number in the text of bold_ratio_label                    *)
(*   slider, font_size, letter_spacing, line_spacing, font, theme_switch     *)
(*             the values of the controls                                    *)
(*   theme     the style sheet applied: "unset", "light" or "dark"           *)
(*   doc       what text_edit shows: the style given to setHtml and the      *)
(*             markup body                                                   *)
(*   loaded    the text of the last file loaded (kept for the properties)    *)
(*   write     the outcome of the last save_config: "none" or one of         *)
(*             WriteOutcomes                                                 *)
(*   missing   the attributes of self that the step just taken read before   *)
(*             they existed                                                  *)
(*   error     the exception raised in the step just taken, "" if none       *)

\* JSON values and the states of the file
JsonDict(d) == [kind |-> "dict", d |-> d]
JsonList == [kind |-> "list"]
FileAbsent == [kind |-> "absent"]
FileUnreadable == [kind |-> "unreadable"]
FileJson(v) == [kind |-> "json", value |-> v]

\* the empty dict
EmptyDict == [k \in {} |-> 0]

\* d.get(k, default)
Get(d, k, default) == IF k \in DOMAIN d THEN d[k] ELSE default

\* d after d[k] = v
Put(d, k, v) == [x \in DOMAIN d \cup {k} |-> IF x = k THEN v ELSE d[x]]

\* QAbstractSlider.setValue, QSpinBox.setValue: the value is bound to the range
SetValueUnbounded(v, lo, hi) == v
SetValue(v, lo, hi) == Max(lo, Min(v, hi))

\* the files the application may find
ConfigDicts ==
    { EmptyDict,
      [k \in {"bold_ratio"} |-> 95],
      [bold_ratio |-> 5, dark_mode |-> TRUE],
      [bold_ratio |-> SliderMin, font_size |-> FontSizeMax, letter_spacing |-> 6,
       line_spacing |-> 21, font_family |-> "Times", dark_mode |-> TRUE],
      [k \in {"font_size"} |-> 100] }

ConfigFiles ==
    {FileAbsent, FileUnreadable, FileJson(JsonList)}
        \cup {FileJson(JsonDict(d)) : d \in ConfigDicts}

\* what the user sets the controls to
UserSliderValues == {SliderMin, SliderMax}
UserFontSizes == {DefaultFontSize, FontSizeMax}
UserLetterSpacings == {DefaultLetterSpacing, 6}
UserLineSpacings == {DefaultLineSpacing, 21}
UserFonts == {"Arial", "Times"}

\* the files the user loads: "cat", "a\nb"
UserTexts == {ExampleCat, <<97, 10, 98>>}

----------------------------------------------------------------------------
(* QTextEdit: setHtml and toPlainText *)

\* white space in HTML
IsSpace(c) == c \in {9, 10, 13, 32}

\* the markup without its <b> and </b> tags
RECURSIVE StripTags(_)
StripTags(s) ==
    IF s = <<>> THEN <<>>
    ELSE IF Len(s) >= 3 /\ SubSeq(s, 1, 3) = OpenTag
         THEN StripTags(SubSeq(s, 4, Len(s)))
         ELSE IF Len(s) >= 4 /\ SubSeq(s, 1, 4) = CloseTag
              THEN StripTags(SubSeq(s, 5, Len(s)))
              ELSE <<Head(s)>> \o StripTags(Tail(s))

\* white space as HTML text is laid out (white-space: normal): a run of
\* white space is one space, and none at the start of the block; skip says
\* that white space is being dropped
RECURSIVE Collapse(_, _)
Collapse(s, skip) ==
    IF s = <<>> THEN <<>>
    ELSE IF IsSpace(Head(s))
         THEN IF skip THEN Collapse(Tail(s), TRUE)
              ELSE <<32>> \o Collapse(Tail(s), TRUE)
         ELSE <<Head(s)>> \o Collapse(Tail(s), FALSE)

\* text_edit.toPlainText() after text_edit.setHtml("<div ...>" body "</div>"),
\* for a body of letters, digits, white space and the tags <b>, </b>
HtmlPlain(body) == Collapse(StripTags(body), TRUE)

\* text_edit.toPlainText()
ToPlainText(a) == HtmlPlain(a.doc.body)

\* text_edit before the first setHtml
EmptyDoc == [styled |-> FALSE, font_size |-> 0, font |-> "", letter_spacing |-> 0,
             line_spacing |-> 0, body |-> <<>>]

----------------------------------------------------------------------------
(* The methods of BionicReadingApp, as functions of the object a *)

\* display_bionic_text(t): the call processed_text = bionic_reading(t,
\* slider / 100); output' is processed_text
CallBionicReading(a, t) ==
    /\ percent' = a.slider
    /\ bold_ratio' = FloatDiv(a.slider, PercentScale)
    /\ text' = t
    /\ output' = BionicReading(t, bold_ratio')
    /\ pc' = "done"
    /\ UNCHANGED <<tokens, result, idx, bold_len, threads>>

\* display_bionic_text(t): the document given to text_edit.setHtml, the
\* styled <div> around processed_text
DisplayedDoc(a, processed_text) ==
    [styled |-> TRUE, font_size |-> a.font_size, font |-> a.font,
     letter_spacing |-> a.letter_spacing, line_spacing |-> a.line_spacing,
     body |-> processed_text]

\* display_bionic_text(t): the object after setHtml
DisplayBionicText(a, processed_text) ==
    [a EXCEPT !.doc = DisplayedDoc(a, processed_text)]

\* the first five assignments of save_config
ConfigOfControls(a) ==
    Put(Put(Put(Put(Put(a.config.d,
        "bold_ratio", a.slider),
        "font_size", a.font_size),
        "letter_spacing", a.letter_spacing),
        "line_spacing", a.line_spacing),
        "font_family", a.font)

\* how the write of save_config ends: done; open() raises, which leaves the
\* file as it was; the dump raises after open() has emptied the file
WriteOutcomes == {"ok", "open_failed", "write_failed"}

\* the file after save_config has tried to write the config c
FileAfterWrite(a, c, w) ==
    CASE w = "ok" -> FileJson(c)
      [] w = "open_failed" -> a.cfgfile
      [] w = "write_failed" -> FileUnreadable

\* save_config(): the six assignments, then the file is written; a write
\* that fails is reported and save_config returns
SaveConfigNoTheme(a, w) ==
    LET c == JsonDict(ConfigOfControls(a))
    IN  [a EXCEPT !.config = c,
                  !.cfgfile = FileAfterWrite(a, c, w),
                  !.write = w]
SaveConfig(a, w) ==
    LET c == JsonDict(Put(ConfigOfControls(a), "dark_mode", a.theme_switch))
    IN  [a EXCEPT !.config = c,
                  !.cfgfile = FileAfterWrite(a, c, w),
                  !.write = w]

\* save_config() while theme_switch does not exist: five assignments, then
\* self.theme_switch raises AttributeError
SaveConfigEarly(a) ==
    [a EXCEPT !.config = JsonDict(ConfigOfControls(a)),
              !.missing = a.missing \cup {"theme_switch"},
              !.error = "AttributeError"]

----------------------------------------------------------------------------
(* BionicReadingApp.__init__ *)

NewApp(f) ==
    [pc |-> "new", cfgfile |-> f, config |-> JsonDict(EmptyDict),
     created |-> {}, label |-> 0, slider |-> 0, font_size |-> 0,
     letter_spacing |-> 0, line_spacing |-> 0, font |-> "",
     theme_switch |-> FALSE, theme |-> "unset", doc |-> EmptyDoc,
     loaded |-> <<>>, write |-> "none", missing |-> {},
     error |-> ""]

InitApp ==
    /\ \E f \in ConfigFiles : app = NewApp(f)
    /\ percent = 0
    /\ text = <<>>
    /\ bold_ratio = FloatZero
    /\ tokens = <<>>
    /\ result = <<>>
    /\ idx = 0
    /\ bold_len = 0
    /\ output = <<>>
    /\ pc = "idle"
    /\ threads = NoThreads

UnchangedCall ==
    UNCHANGED <<percent, text, bold_ratio, tokens, result, idx, bold_len, output, pc,
                threads>>

\* load_config(): the file's JSON value, or {} where the file is absent or
\* reading it raises
LoadConfig ==
    /\ app.pc = "new"
    /\ app' = [app EXCEPT !.pc = "init_ui",
                          !.config = IF app.cfgfile.kind = "json"
                                     THEN app.cfgfile.value
                                     ELSE JsonDict(EmptyDict)]
    /\ UnchangedCall

\* init_ui, to the slider: self.config.get raises AttributeError where
\* self.config is no dict; the label shows the config's value, the slider is
\* set to it within its range; update_bold_ratio is connected afterwards
InitBoldRatio ==
    /\ app.pc = "init_ui"
    /\ IF app.config.kind # "dict"
       THEN app' = [app EXCEPT !.pc = "crashed", !.error = "AttributeError",
                               !.created = {"text_edit", "load_button"}]
       ELSE app' = [app EXCEPT
                !.pc = "ui_spinboxes",
                !.created = {"text_edit", "load_button", "bold_ratio_label",
                             "bold_ratio_slider"},
                !.label = Get(app.config.d, "bold_ratio", DefaultBoldRatio),
                !.slider = SetValue(Get(app.config.d, "bold_ratio", DefaultBoldRatio),
                                    SliderMin, SliderMax)]
    /\ UnchangedCall

\* init_ui, the three spin boxes: each is set within its range, and its
\* handler connected afterwards
InitSpinBoxes ==
    /\ app.pc = "ui_spinboxes"
    /\ app' = [app EXCEPT
            !.pc = "ui_font",
            !.created = app.created \cup
                {"font_size_spinbox", "letter_spacing_spinbox", "line_spacing_spinbox"},
            !.font_size = SetValue(Get(app.config.d, "font_size", DefaultFontSize),
                                   FontSizeMin, FontSizeMax),
            !.letter_spacing =
                SetValue(Get(app.config.d, "letter_spacing", DefaultLetterSpacing),
                         LetterSpacingMin, LetterSpacingMax),
            !.line_spacing =
                SetValue(Get(app.config.d, "line_spacing", DefaultLineSpacing),
                         LineSpacingMin, LineSpacingMax)]
    /\ UnchangedCall

\* the object once font_selector exists and shows the config's font
WithFontSelector(a) ==
    [a EXCEPT !.created = a.created \cup {"font_selector"},
              !.font = Get(a.config.d, "font_family", "Arial")]

\* init_ui, the font selector: update_font is connected, then setCurrentFont
\* is called.  The selector's first font is the platform's, so whether
\* currentFontChanged is emitted is the platform's choice.  Not emitted:
InitFontQuiet ==
    /\ app.pc = "ui_font"
    /\ app' = [WithFontSelector(app) EXCEPT !.pc = "ui_theme"]
    /\ UnchangedCall

\* Emitted: update_font runs inside setCurrentFont; display_bionic_text
\* finds its controls, save_config reads self.theme_switch, which is created
\* later, and raises.  PySide prints the slot's exception or raises it in
\* the caller, depending on its version (reraised).
InitFontEmits ==
    /\ app.pc = "ui_font"
    /\ \E reraised \in BOOLEAN :
          LET a == WithFontSelector(app)
          IN  /\ CallBionicReading(a, ToPlainText(a))
              /\ app' = [SaveConfigEarly(DisplayBionicText(a, output'))
                         EXCEPT !.pc = IF reraised THEN "crashed" ELSE "ui_theme"]

\* init_ui, the rest: theme_switch is set, toggle_theme connected
\* afterwards; the buttons and the layout
InitThemeSwitch ==
    /\ app.pc = "ui_theme"
    /\ app' = [app EXCEPT
            !.pc = "ui_done",
            !.missing = {},
            !.error = "",
            !.created = app.created \cup
                {"theme_switch", "refresh_button", "export_button"},
            !.theme_switch = Get(app.config.d, "dark_mode", FALSE)]
    /\ UnchangedCall

\* __init__, after init_ui: the theme of the config
ApplyTheme ==
    /\ app.pc = "ui_done"
    /\ app' = [app EXCEPT
            !.pc = "running",
            !.theme = IF Get(app.config.d, "dark_mode", FALSE) THEN "dark" ELSE "light"]
    /\ UnchangedCall

----------------------------------------------------------------------------
(* The event loop: one action per handler.  A control's signal is emitted   *)
(* when the user gives it a value that differs from the one it has.         *)

\* load_file(): the user picks a text file holding t
LoadFile ==
    /\ app.pc = "running"
    /\ \E t \in UserTexts :
          /\ CallBionicReading(app, t)
          /\ app' = [DisplayBionicText(app, output') EXCEPT !.loaded = t]

\* a handler that re-renders and saves: update_font_size, update_font,
\* update_spacing, and the tail of update_bold_ratio; a is the object with
\* the control changed
RerenderAndSave(a, w) ==
    /\ CallBionicReading(a, ToPlainText(a))
    /\ app' = SaveConfig(DisplayBionicText(a, output'), w)

\* update_bold_ratio(): the user moves the slider to v
SliderChange ==
    /\ app.pc = "running"
    /\ \E v \in UserSliderValues \ {app.slider}, w \in WriteOutcomes :
          RerenderAndSave([app EXCEPT !.slider = v, !.label = v], w)

\* update_font_size(): the user sets the font size to v
FontSizeChange ==
    /\ app.pc = "running"
    /\ \E v \in UserFontSizes \ {app.font_size}, w \in WriteOutcomes :
          RerenderAndSave([app EXCEPT !.font_size = v], w)

\* update_spacing(): the user sets the letter spacing to v
LetterSpacingChange ==
    /\ app.pc = "running"
    /\ \E v \in UserLetterSpacings \ {app.letter_spacing}, w \in WriteOutcomes :
          RerenderAndSave([app EXCEPT !.letter_spacing = v], w)

\* update_spacing(): the user sets the line spacing to v
LineSpacingChange ==
    /\ app.pc = "running"
    /\ \E v \in UserLineSpacings \ {app.line_spacing}, w \in WriteOutcomes :
          RerenderAndSave([app EXCEPT !.line_spacing = v], w)

\* update_font(): the user selects the font f
FontChange ==
    /\ app.pc = "running"
    /\ \E f \in UserFonts \ {app.font}, w \in WriteOutcomes :
          RerenderAndSave([app EXCEPT !.font = f], w)

\* toggle_theme(): the user checks or unchecks "Dark Mode"
ToggleTheme ==
    /\ app.pc = "running"
    /\ \E w \in WriteOutcomes :
          app' = SaveConfig([app EXCEPT !.theme_switch = ~app.theme_switch,
                                        !.theme = IF app.theme_switch
                                                  THEN "light" ELSE "dark"], w)
    /\ UnchangedCall

\* refresh_text(): the user presses Refresh
RefreshText ==
    /\ app.pc = "running"
    /\ CallBionicReading(app, ToPlainText(app))
    /\ app' = DisplayBionicText(app, output')

NextApp ==
    \/ LoadConfig
    \/ InitBoldRatio
    \/ InitSpinBoxes
    \/ InitFontQuiet
    \/ InitFontEmits
    \/ InitThemeSwitch
    \/ ApplyTheme
    \/ LoadFile
    \/ SliderChange
    \/ FontSizeChange
    \/ LetterSpacingChange
    \/ LineSpacingChange
    \/ FontChange
    \/ ToggleTheme
    \/ RefreshText

SpecApp == InitApp /\ [][NextApp]_vars

----------------------------------------------------------------------------
(* Vocabulary of the properties *)

\* the ASCII letters and digits
AsciiAlnum == (48..57) \cup (65..90) \cup (97..122)

\* a WordRun: one or more ASCII letters or digits
IsWordRun(tok) == tok # <<>> /\ \A i \in 1..Len(tok) : tok[i] \in AsciiAlnum

\* an OtherRun: one or more characters none of which is one
IsOtherRun(tok) == tok # <<>> /\ \A i \in 1..Len(tok) : tok[i] \notin AsciiAlnum

\* the loop has just emitted the word token tokens[idx - 1]
JustEmphasized == pc = "loop" /\ idx > 1 /\ IsWordRun(tokens[idx - 1])

\* the number of leading ASCII letters and digits of s
RECURSIVE LeadRun(_)
LeadRun(s) ==
    IF s # <<>> /\ Head(s) \in AsciiAlnum THEN 1 + LeadRun(Tail(s)) ELSE 0

\* out with the markers around the prefix of each word of txt deleted: the
\* "<b>" at each word's start and the first "</b>" after it; <<-1>> where a
\* word's markers are not there
RECURSIVE Demark(_, _)
Demark(out, txt) ==
    IF txt = <<>> THEN out
    ELSE IF Head(txt) \in AsciiAlnum
         THEN LET n == LeadRun(txt)
                  body == SubSeq(out, Len(OpenTag) + 1, Len(out))
                  ks == {k \in 0..n : SubSeq(body, k + 1, k + Len(CloseTag)) = CloseTag}
                  k == CHOOSE x \in ks : \A y \in ks : x <= y
              IN  IF Len(out) < n + 7 \/ SubSeq(out, 1, Len(OpenTag)) # OpenTag \/ ks = {}
                  THEN <<-1>>
                  ELSE SubSeq(body, 1, k) \o SubSeq(body, k + 5, n + 4)
                       \o Demark(SubSeq(body, n + 5, Len(body)), SubSeq(txt, n + 1, Len(txt)))
         ELSE IF out = <<>> THEN <<-1>>
              ELSE <<Head(out)>> \o Demark(Tail(out), Tail(txt))

----------------------------------------------------------------------------
(* Properties *)

\* x < y for floats
MagLess(x, y) ==
    \/ x.exp < y.exp
    \/ /\ x.exp = y.exp
       /\ \E i \in 1..5 : x.man[i] < y.man[i] /\ \A j \in 1..(i - 1) : x.man[j] = y.man[j]

FloatLess(x, y) ==
    IF x.zero THEN ~y.zero /\ ~y.neg
    ELSE IF y.zero THEN x.neg
    ELSE IF x.neg # y.neg THEN x.neg
    ELSE IF x.neg THEN MagLess(y, x) ELSE MagLess(x, y)

\* the six entries save_config keeps
ConfigKeys ==
    {"bold_ratio", "font_size", "letter_spacing", "line_spacing", "font_family",
     "dark_mode"}

\* the value of the control behind a config entry
ControlValue(a, k) ==
    CASE k = "bold_ratio" -> a.slider
      [] k = "font_size" -> a.font_size
      [] k = "letter_spacing" -> a.letter_spacing
      [] k = "line_spacing" -> a.line_spacing
      [] k = "font_family" -> a.font
      [] k = "dark_mode" -> a.theme_switch

\* the <b> and </b> of a markup alternate, starting with <b> (open: inside
\* an emphasis)
RECURSIVE TagsAlternate(_, _)
TagsAlternate(s, open) ==
    IF s = <<>> THEN ~open
    ELSE IF Len(s) >= 3 /\ SubSeq(s, 1, 3) = OpenTag
         THEN ~open /\ TagsAlternate(SubSeq(s, 4, Len(s)), TRUE)
         ELSE IF Len(s) >= 4 /\ SubSeq(s, 1, 4) = CloseTag
              THEN open /\ TagsAlternate(SubSeq(s, 5, Len(s)), FALSE)
              ELSE TagsAlternate(Tail(s), open)

\* the controls exist and no event has been handled yet
JustConstructed == app.pc = "ui_done"

\* C1: the tokens re.findall returns, concatenated in order, are the text:
\* no character is dropped, duplicated or moved.
C1_Lossless == pc # "entry" => Join(tokens) = text

C1_Witness ==
    /\ pc = "loop"
    /\ Len(tokens) >= 3
    /\ \E i \in 1..Len(text) : text[i] = 10
    /\ \E i \in 1..Len(text) : text[i] = 233
    /\ Join(tokens) = text

\* C2: the tokens are the maximal runs: each is non-empty and of one class,
\* adjacent tokens are of different classes, and the empty text has no token.
C2_MaximalRuns ==
    pc # "entry" =>
        /\ \A i \in 1..Len(tokens) : IsWordRun(tokens[i]) \/ IsOtherRun(tokens[i])
        /\ \A i \in 1..(Len(tokens) - 1) :
              IsWordRun(tokens[i]) # IsWordRun(tokens[i + 1])
        /\ (text = <<>> => tokens = <<>>)

C2_Witness ==
    /\ pc = "loop"
    /\ Len(tokens) >= 3
    /\ \E i \in 1..Len(tokens) : IsWordRun(tokens[i]) /\ Len(tokens[i]) >= 2
    /\ \E i \in 1..Len(tokens) : IsOtherRun(tokens[i]) /\ Len(tokens[i]) >= 2

\* C3: a token is emitted with emphasis markup exactly when all its characters
\* are ASCII letters or digits; every other token consists of other characters
\* only and is emitted as it is.  "Hello, world!" is split into "Hello", ", ",
\* "world", "!".
C3_WordIffAsciiAlnum ==
    /\ \A i \in 1..Len(result) :
          IF IsWordRun(tokens[i])
          THEN /\ Len(result[i]) = Len(tokens[i]) + 7
               /\ SubSeq(result[i], 1, 3) = OpenTag
          ELSE IsOtherRun(tokens[i]) /\ result[i] = tokens[i]
    /\ (pc # "entry" /\ text = ExampleHello =>
            tokens = << <<72, 101, 108, 108, 111>>, <<44, 32>>,
                        <<119, 111, 114, 108, 100>>, <<33>> >>)

C3_Witness ==
    /\ pc = "done"
    /\ text = ExampleHello
    /\ Len(result) = 4
    /\ SubSeq(result[1], 1, 3) = OpenTag
    /\ result[2] = <<44, 32>>

\* C4: the returned string is the text with only markers inserted: deleting
\* the markers around each word's prefix gives the text back, and the empty
\* text gives the empty string.
C4_OnlyMarkersInserted ==
    pc = "done" =>
        /\ Demark(output, text) = text
        /\ (text = <<>> => output = <<>>)

C4_Witness ==
    /\ pc = "done"
    /\ Len(tokens) >= 3
    /\ Len(output) >= Len(text) + 14
    /\ Demark(output, text) = text

\* C5: every token of other characters is in the returned string as it is,
\* at its place, with nothing added to it, at every ratio.
C5_OtherVerbatim ==
    pc = "done" =>
        \A i \in 1..Len(tokens) :
            IsOtherRun(tokens[i]) =>
                LET off == Len(Join(SubSeq(result, 1, i - 1)))
                IN  /\ Len(result[i]) = Len(tokens[i])
                    /\ SubSeq(output, off + 1, off + Len(tokens[i])) = tokens[i]

C5_Witness ==
    /\ pc = "done"
    /\ percent = 150
    /\ Len(tokens) >= 3
    /\ IsOtherRun(tokens[2])
    /\ Len(tokens[2]) >= 2
    /\ result[2] = tokens[2]

\* C6: the emphasis length of a word of length L at ratio percent/100 is
\* max(1, floor(L * percent / 100)), computed exactly.
C6_ExactFloor ==
    JustEmphasized =>
        bold_len = Max(1, (Len(tokens[idx - 1]) * percent) \div PercentScale)

\* C7: the emphasis length of every word is at least 1, at every ratio, and
\* the word's first character is emphasized.
C7_AtLeastOne ==
    JustEmphasized =>
        /\ bold_len >= 1
        /\ Len(result[idx - 1]) >= 4
        /\ SubSeq(result[idx - 1], 1, 4) = OpenTag \o <<tokens[idx - 1][1]>>

C7_Witness ==
    JustEmphasized /\ percent < 0 /\ Len(tokens[idx - 1]) >= 2 /\ bold_len = 1

\* C8: the emphasized part of a word W of length L is its first
\* k = min(bold_len, L) characters and the plain part is the rest, with
\* 1 <= k <= L; at a ratio of 1 or more the whole word is emphasized.
\* "a1 b2" at 1.5 gives "<b>a1</b> <b>b2</b>" and "cat" at 0.4 "<b>c</b>at".
C8_PrefixSplit ==
    /\ JustEmphasized =>
          LET W == tokens[idx - 1]
              k == Min(bold_len, Len(W))
          IN  /\ 1 <= k /\ k <= Len(W)
              /\ result[idx - 1]
                    = OpenTag \o SubSeq(W, 1, k) \o CloseTag \o SubSeq(W, k + 1, Len(W))
              /\ (percent >= 100 => k = Len(W))
    /\ (pc = "done" /\ text = ExampleA1B2 /\ percent = 150 =>
            output = OpenTag \o <<97, 49>> \o CloseTag \o <<32>>
                     \o OpenTag \o <<98, 50>> \o CloseTag)
    /\ (pc = "done" /\ text = ExampleCat /\ percent = 40 =>
            output = OpenTag \o <<99>> \o CloseTag \o <<97, 116>>)

C8_Witness ==
    /\ JustEmphasized
    /\ percent >= 100
    /\ Len(tokens[idx - 1]) >= 2
    /\ bold_len > Len(tokens[idx - 1])
    /\ result[idx - 1] = OpenTag \o tokens[idx - 1] \o CloseTag

\* C9: at a ratio strictly between 0 and 1 the emphasis length does not
\* decrease with the word length: a shorter word never gets a longer one.
C9_Monotone ==
    JustEmphasized /\ 0 < percent /\ percent < 100 =>
        \A n \in 1..Len(tokens[idx - 1]) : BoldLen(n, bold_ratio) <= bold_len

C9_Witness ==
    /\ JustEmphasized
    /\ percent = 50
    /\ Len(tokens[idx - 1]) = 10
    /\ bold_len = 5
    /\ BoldLen(9, bold_ratio) = 4

\* C10 as stated: the emphasis length of a word of length 1 is 1 at every
\* ratio.
C10_AlwaysOne == JustEmphasized /\ Len(tokens[idx - 1]) = 1 => bold_len = 1

\* C10, amended: the emphasis length of a word of length 1 is 1 at every
\* ratio below 2 and floor(ratio) from 2 on; the emphasized part is the one
\* character at every ratio.
C10_OneBelowTwo ==
    JustEmphasized /\ Len(tokens[idx - 1]) = 1 =>
        /\ (percent < 2 * PercentScale => bold_len = 1)
        /\ (percent >= 2 * PercentScale => bold_len = percent \div PercentScale)
        /\ result[idx - 1] = OpenTag \o tokens[idx - 1] \o CloseTag

C10_Witness ==
    /\ JustEmphasized
    /\ Len(tokens[idx - 1]) = 1
    /\ percent = 199
    /\ bold_len = 1

\* C11: bionic_reading returns for every text and every ratio: no call ends
\* in an error.
C11_Total == pc # "error"

\* C12: with calls made one after another and at the same time by several
\* threads, in any interleaving of their steps, every call that returns gives
\* the string BionicReading gives for its own text and ratio, and a call
\* raises only where the same call made alone raises.
C12_Isolated ==
    \A t \in DOMAIN threads.call :
        /\ threads.call[t].pc = "done" =>
              /\ ~Raises(threads.call[t].text, threads.call[t].bold_ratio)
              /\ threads.call[t].output =
                    BionicReading(threads.call[t].text, threads.call[t].bold_ratio)
        /\ threads.call[t].pc = "error" =>
              Raises(threads.call[t].text, threads.call[t].bold_ratio)

C12_Witness ==
    /\ threads # NoThreads
    /\ threads.call[1].pc = "done"
    /\ threads.call[1].overlapped
    /\ threads.call[1].calls >= 2
    /\ threads.call[1].text = <<97, 98>>
    /\ threads.call[1].output = OpenTag \o <<97>> \o CloseTag \o <<98>>
    /\ threads.call[2].pc = "loop"
    /\ threads.call[2].text = <<32, 97>>
    /\ threads.frame[2].idx = 2

\* C13: start-up never fails on the config file: the config handed to init_ui
\* is a mapping whatever the file holds, no exception leaves init_ui because
\* of it, and with the file absent or unreadable every control has its
\* default value.
C13_ConfigUsable ==
    /\ app.pc # "new" => app.config.kind = "dict"
    /\ ~(app.pc = "crashed" /\ app.missing = {})
    /\ JustConstructed /\ app.cfgfile.kind \in {"absent", "unreadable"} =>
          /\ app.slider = DefaultBoldRatio
          /\ app.font_size = DefaultFontSize
          /\ app.letter_spacing = DefaultLetterSpacing
          /\ app.line_spacing = DefaultLineSpacing
          /\ app.font = "Arial"
          /\ app.theme_switch = FALSE

\* C14: in the event loop, once a setting-change handler has run, each of
\* the six config entries equals its control's value, whether the write
\* succeeded or failed; the file holds exactly this config when the last
\* write succeeded, and is cut short when the dump failed after open().
C14_ConfigFollowsControls ==
    app.pc = "running" /\ app.write # "none" =>
        /\ app.config.kind = "dict"
        /\ ConfigKeys \subseteq DOMAIN app.config.d
        /\ \A k \in ConfigKeys : app.config.d[k] = ControlValue(app, k)
        /\ app.write = "ok" => app.cfgfile = FileJson(app.config)
        /\ app.write = "write_failed" => app.cfgfile = FileUnreadable

C14_Witness ==
    /\ app.pc = "running"
    /\ app.write = "open_failed"
    /\ app.slider = SliderMax
    /\ app.font = "Times"
    /\ app.theme_switch
    /\ app.config.d["bold_ratio"] = SliderMax
    /\ app.cfgfile.kind = "json"
    /\ app.cfgfile.value.kind = "dict"
    /\ "bold_ratio" \in DOMAIN app.cfgfile.value.d
    /\ app.cfgfile.value.d["bold_ratio"] # SliderMax

\* C15: no handler that runs during construction reads an attribute of the
\* object that does not exist yet.
C15_HandlersReadExisting == app.missing = {}

\* C16: whenever display_bionic_text has called bionic_reading, the ratio it
\* passed is slider / 100 for the slider's value, which lies in 10..90, and
\* the ratio lies between 10 / 100 and 90 / 100.
C16_RatioInRange ==
    app.pc # "none" /\ pc = "done" =>
        /\ percent = app.slider
        /\ percent \in SliderMin..SliderMax
        /\ bold_ratio = FloatDiv(percent, PercentScale)
        /\ ~FloatLess(bold_ratio, FloatDiv(SliderMin, PercentScale))
        /\ ~FloatLess(FloatDiv(SliderMax, PercentScale), bold_ratio)

C16_Witness ==
    /\ app.pc = "running"
    /\ pc = "done"
    /\ app.label = 95
    /\ percent = SliderMax
    /\ text = ExampleCat

\* C17: once init_ui has finished, the label shows the slider's value.
C17_LabelShowsSlider ==
    app.pc \in {"ui_done", "running"} => app.label = app.slider

\* C18: once a text T has been loaded, after every event the markup shown is
\* bionic_reading(T, slider / 100), the plain text shown is T, and the <b>
\* and </b> of the markup alternate.
C18_RerenderKeepsText ==
    app.pc = "running" /\ app.loaded # <<>> =>
        /\ app.doc.body = BionicReading(app.loaded, FloatDiv(app.slider, PercentScale))
        /\ ToPlainText(app) = app.loaded
        /\ TagsAlternate(app.doc.body, FALSE)

====
